---- MODULE Spec2Model ----
(***************************************************************************)
(* Switching Mixer (SwMx): the control-decision and gain-smoothing engine  *)
(* of src/SwitchingMixer.cpp as a state machine.                           *)
(*                                                                         *)
(* Units.  Bus samples are floats in the source.  Here a control voltage   *)
(* is an integer number of millivolts, a gain is an integer number of      *)
(* 1/One steps (One stands for 1.0f), a volume scalar is an integer number *)
(* of hundredths, and an audio sample is an integer.  Every product is     *)
(* rounded to the nearest representable value, as float arithmetic does.   *)
(***************************************************************************)
EXTENDS Integers, Sequences, FiniteSets, TLC

VARIABLES numGroups,   \* SwitchingMixer::numGroups
          numDests,    \* SwitchingMixer::numDests
          sampleRate,  \* NT_globals.sampleRate
          v,           \* _NT_algorithm::v, the host-owned parameter values
          groupState,  \* SwitchingMixer::groupState[g]
          bufIn,       \* the bus buffers the host handed to the last step
          buf,         \* the bus buffers when the last step returned
          last,        \* the last callback and its arguments
          inStep       \* a step call that has not returned: its position
                       \* and its locals

vars == <<numGroups, numDests, sampleRate, v, groupState, bufIn, buf, last, inStep>>

(* ---------------- bounds of the model ---------------- *)
One == 8            \* gain grid: 1.0f is One steps
MaxNBy4 == 1        \* largest nBy4 the host passes to step
NumBus == 3         \* busses the host hands over (MAX_BUSSES in the device)

(* ---------------- program constants ---------------- *)
MAX_GROUPS == 4
MAX_DESTINATIONS == 4
MIN_DESTINATIONS == 2
CTRL_UNIPOLAR == 0
CTRL_BIPOLAR == 1
CTRL_TRIGGER == 2
CTRL_TRIG_REV == 3
CTRL_GATE == 4
CTRL_GATE_REV == 5
CTRL_TYPE_COUNT == 6
TRIGGER_THRESHOLD == 2500   \* 2.5f volts, in millivolts
GATE_THRESHOLD == 2500      \* 2.5f volts, in millivolts
PARAM_BYPASS == 0
PARAM_GLOBAL_SLEW == 1
GLOBAL_PARAM_COUNT == 2
GP_INPUT_L == 0
GP_INPUT_R == 1
GP_CONTROL == 2
GP_VOLUME == 3
GP_CTRL_TYPE == 4
GP_CURVE == 5
GP_SLEW == 6
GP_ACTIVE_DEST == 7
GP_DEST1_L == 8
GP_DEST1_R == 9

(* ---------------- helpers ---------------- *)
Min(a, b) == IF a < b THEN a ELSE b

\* std::clamp
Clamp(x, lo, hi) == IF x < lo THEN lo ELSE IF x > hi THEN hi ELSE x

\* a / b rounded to the nearest integer, halves away from zero (the rounding
\* of one float operation), b > 0
RoundDiv(a, b) ==
    IF a >= 0 THEN (2 * a + b) \div (2 * b) ELSE -((b - 2 * a) \div (2 * b))

\* bus(): index 0 (or below) is "no bus", modelled as 0
bus(bus_idx) == IF bus_idx > 0 THEN bus_idx ELSE 0

\* getSampleRateFloat()
getSampleRateFloat(sr) == IF sr \in {44100, 48000, 88200, 96000} THEN sr ELSE 48000

\* the conversion with the lowest setting as a mute
dbToGain_HardOff(tenthDb) ==
    CASE tenthDb = -400 -> 0
      [] tenthDb = -200 -> 10
      [] tenthDb = 0    -> 100
      [] tenthDb = 60   -> 200

\* dbToGain(), in hundredths, for the arguments the model feeds it
\* (tenths of a dB): pow(10, db/20)
dbToGain(tenthDb) ==
    CASE tenthDb = -400 -> 1
      [] tenthDb = -200 -> 10
      [] tenthDb = 0    -> 100
      [] tenthDb = 60   -> 200

\* sig *= volume
ApplyVolume(sig, volume) == RoundDiv(sig * volume, 100)

\* a float[MAX_DESTINATIONS], indexed from 0
Gains(g0, g1, g2, g3) == (0 :> g0) @@ (1 :> g1) @@ (2 :> g2) @@ (3 :> g3)

\* the target vector with the chosen slot set and no other slot cleared
UpdateTargetGains_NoClear(tg, targetDest, D) ==
    LET slot(d) == IF d < D /\ d = targetDest THEN One ELSE tg[d]
    IN  Gains(slot(0), slot(1), slot(2), slot(3))

\* the one-hot target vector of lines 429-431 / 543-545: slots below numDests
\* are rewritten, the others keep their value
UpdateTargetGains(tg, targetDest, D) ==
    LET slot(d) == IF d < D THEN (IF d = targetDest THEN One ELSE 0) ELSE tg[d]
    IN  Gains(slot(0), slot(1), slot(2), slot(3))

paramsPerGroupOf(D) == 8 + (D * 2) + 3

\* MixerGroupState's member initialisers
InitGroupState ==
    [currentDest |-> 0,
     targetDest |-> 0,
     destGains |-> Gains(One, 0, 0, 0),
     targetGains |-> Gains(One, 0, 0, 0),
     lastTriggerHigh |-> FALSE,
     lastMidiValue |-> 0]

(* ---------------- control processing ---------------- *)
\* Control voltages are in millivolts and "normalized" is kept in units of
\* 0.0001, so that cv / 10.0f is written cv and 0.9999f is written 9999.

\* the Unipolar destination scaled by numDests - 1
unipolarDest_Short(cv, D) == (Clamp(cv, 0, 9999) * (D - 1)) \div 10000

\* lines 329-330: the Unipolar destination, before the closing clamp
unipolarDest(cv, D) == (Clamp(cv, 0, 9999) * D) \div 10000

\* lines 335-336: the Bipolar destination, before the closing clamp
bipolarDest(cv, D) == (Clamp(cv + 5000, 0, 9999) * D) \div 10000

\* the edge test without the memory of the last level: high is enough
risingEdge_Level(cv, state) == cv > TRIGGER_THRESHOLD

\* lines 341-342 and 350-351: a rising edge of the control voltage
risingEdge(cv, state) == cv > TRIGGER_THRESHOLD /\ ~state.lastTriggerHigh

\* the Gate destination with the threshold itself counted as high
gateDest_AtThreshold(cv, D) == IF cv >= GATE_THRESHOLD THEN Min(1, D - 1) ELSE 0

\* line 359: the Gate destination
gateDest(cv, D) == IF cv > GATE_THRESHOLD THEN Min(1, D - 1) ELSE 0

\* line 363: the Gate-Reverse destination
gateRevDest(cv, D) == IF cv > GATE_THRESHOLD THEN 0 ELSE Min(1, D - 1)

\* the Trigger advance without the wrap: the last destination is kept
triggerNext_Saturating(dest, D) == Min(dest + 1, D - 1)

\* lines 343 and 513: the destination a Trigger edge advances to
triggerNext(dest, D) == (dest + 1) % D

\* the Trigger-Reverse advance without the wrap: destination 0 is kept
triggerPrev_Saturating(dest, D) == IF dest = 0 THEN 0 ELSE dest - 1

\* lines 352 and 523: the destination a Trigger-Reverse edge advances to
triggerPrev(dest, D) == (dest + D - 1) % D

\* line 369: the closing clamp of processControl
clampDest(dest, D) == Clamp(dest, 0, D - 1)

\* processControl with the normalized value clamped to 1.0 instead of 0.9999
\* and without the closing clamp
processControl_Unclamped(cv, type, D, state) ==
    LET dest ==
            CASE type = CTRL_UNIPOLAR -> (Clamp(cv, 0, 10000) * D) \div 10000
              [] type = CTRL_BIPOLAR -> (Clamp(cv + 5000, 0, 10000) * D) \div 10000
              [] type = CTRL_TRIGGER ->
                    IF risingEdge(cv, state) THEN (state.targetDest + 1) % D
                    ELSE state.targetDest
              [] type = CTRL_TRIG_REV ->
                    IF risingEdge(cv, state) THEN (state.targetDest + D - 1) % D
                    ELSE state.targetDest
              [] type = CTRL_GATE -> gateDest(cv, D)
              [] type = CTRL_GATE_REV -> gateRevDest(cv, D)
              [] OTHER -> state.targetDest
    IN  [dest |-> dest,
         lastTriggerHigh |-> IF type \in {CTRL_TRIGGER, CTRL_TRIG_REV}
                             THEN cv > TRIGGER_THRESHOLD
                             ELSE state.lastTriggerHigh]

\* processControl(cv, type, numDests, state): the destination it returns and
\* the lastTriggerHigh it leaves behind
processControl(cv, type, D, state) ==
    LET dest ==
            CASE type = CTRL_UNIPOLAR -> unipolarDest(cv, D)
              [] type = CTRL_BIPOLAR -> bipolarDest(cv, D)
              [] type = CTRL_TRIGGER ->
                    IF risingEdge(cv, state) THEN triggerNext(state.targetDest, D)
                    ELSE state.targetDest
              [] type = CTRL_TRIG_REV ->
                    IF risingEdge(cv, state) THEN triggerPrev(state.targetDest, D)
                    ELSE state.targetDest
              [] type = CTRL_GATE -> gateDest(cv, D)
              [] type = CTRL_GATE_REV -> gateRevDest(cv, D)
              [] OTHER -> state.targetDest
    IN  [dest |-> clampDest(dest, D),
         lastTriggerHigh |-> IF type \in {CTRL_TRIGGER, CTRL_TRIG_REV}
                             THEN cv > TRIGGER_THRESHOLD
                             ELSE state.lastTriggerHigh]

(* ---------------- DSP step ---------------- *)
\* 1.0f - std::exp(-1.0f / (sampleRate * slewTime)) on the gain grid.
\* slewTimeUs is in microseconds.  The quotient keeps what the float value
\* has: strictly between 0 and 1, and smaller for a longer time constant.
\* Up to about 3340 samples of time constant the float increment toward
\* 1.0f stays above half an ulp of 1.0f until the gain is within 0.0001 of
\* it; the grid rate One \div 2 reaches One.  Beyond that the increment
\* rounds away earlier, as it does on the grid at the two smaller rates.
slewRateOf(sr, slewTimeUs) ==
    LET samples == ((sr \div 100) * (slewTimeUs \div 100)) \div 100
    IN  IF samples < 3340 THEN One \div 2
        ELSE IF samples < 100000 THEN One \div 4
        ELSE 1

\* the smoothing coefficient with the older fallback: a group slew of zero
\* takes the global slew time
slewRate_ZeroIsGlobal(slewParam, globalSlewParam, sr) ==
    LET slewMs == slewParam * 1000
        globalSlewMs == globalSlewParam * 1000
        slewTime == IF slewMs > 0 THEN slewMs ELSE globalSlewMs
    IN  IF slewTime <= 100 THEN One ELSE slewRateOf(sr, slewTime)

\* the smoothing coefficient taken from the group's slew alone
slewRate_GroupOnly(slewParam, globalSlewParam, sr) ==
    LET slewMs == slewParam * 1000
    IN  IF slewMs <= 100 THEN One ELSE slewRateOf(sr, slewMs)

\* lines 433-440: the smoothing coefficient of a block
slewRate(slewParam, globalSlewParam, sr) ==
    LET slewMs == slewParam * 1000
        globalSlewMs == globalSlewParam * 1000
        slewTime == IF slewMs >= 0 THEN slewMs ELSE globalSlewMs
    IN  IF slewTime <= 100 THEN One ELSE slewRateOf(sr, slewTime)

\* the increment of one sample applied twice over
slewIncrement_Twice(diff, rate) == 2 * RoundDiv(diff * rate, One)

\* line 454: (targetGains[d] - destGains[d]) * slewRate as the sum takes it
\* up.  A gain falling toward 0.0f always moves (floats are dense toward
\* zero, the product is far above an ulp of the gain); a gain rising toward
\* 1.0f moves by the product rounded to the nearest ulp of 1.0f, the grid
\* step, which is no move at all once the product is below half of it.
slewIncrement(diff, rate) ==
    IF diff >= 0 THEN RoundDiv(diff * rate, One)
    ELSE -(((-diff) * rate + One - 1) \div One)

\* one sample of the slew with the current gain left out of the
\* difference: the target's share is added on every sample
SlewGains_Accumulate(destGains, targetGains, rate, D) ==
    LET slot(d) ==
            IF d < D
            THEN destGains[d] + RoundDiv(targetGains[d] * rate, One)
            ELSE destGains[d]
    IN  Gains(slot(0), slot(1), slot(2), slot(3))

\* one sample of the slew that lands on the target at once
SlewGains_Snap(destGains, targetGains, rate, D) ==
    LET slot(d) == IF d < D THEN targetGains[d] ELSE destGains[d]
    IN  Gains(slot(0), slot(1), slot(2), slot(3))

\* lines 453-455: one sample of the slew
SlewGains(destGains, targetGains, rate, D) ==
    LET slot(d) ==
            IF d < D
            THEN destGains[d] + slewIncrement(targetGains[d] - destGains[d], rate)
            ELSE destGains[d]
    IN  Gains(slot(0), slot(1), slot(2), slot(3))

\* buf[bus][n] = x: the sample stored, not added
AddSample_Overwrite(b, busIdx, n, x) ==
    [b EXCEPT ![busIdx] = [@ EXCEPT ![n + 1] = x]]

\* the sample added one bus further on, the bus index taken as 0-based
AddSample_NextBus(b, busIdx, n, x) ==
    [b EXCEPT ![(busIdx % NumBus) + 1] = [@ EXCEPT ![n + 1] = @ + x]]

\* buf[bus][n] += x
AddSample(b, busIdx, n, x) ==
    [b EXCEPT ![busIdx] = [@ EXCEPT ![n + 1] = @ + x]]

\* lines 458-464: sample n of every destination from d on
RECURSIVE Distribute(_, _, _, _, _, _, _)
Distribute(d, c, gains, b, n, sigL, sigR) ==
    IF d >= c.D THEN b
    ELSE IF gains[d] * 10000 > One
    THEN LET bL == IF c.destL[d] # 0
                   THEN AddSample(b, c.destL[d], n, RoundDiv(sigL * gains[d], One))
                   ELSE b
             bR == IF c.destR[d] # 0
                   THEN AddSample(bL, c.destR[d], n, RoundDiv(sigR * gains[d], One))
                   ELSE bL
         IN  Distribute(d + 1, c, gains, bR, n, sigL, sigR)
    ELSE Distribute(d + 1, c, gains, b, n, sigL, sigR)

\* lines 443-465: the samples of one group from n on
RECURSIVE ProcessAudio(_, _, _, _)
ProcessAudio(n, c, gains, b) ==
    IF n >= c.N THEN [destGains |-> gains, buf |-> b]
    ELSE
        LET sigL0 == IF c.inL # 0 THEN b[c.inL][n + 1] ELSE 0
            sigR0 == IF c.inR # 0 THEN b[c.inR][n + 1] ELSE sigL0
            sigL == ApplyVolume(sigL0, c.volume)
            sigR == ApplyVolume(sigR0, c.volume)
            g2 == SlewGains(gains, c.targetGains, c.rate, c.D)
        IN  ProcessAudio(n + 1, c, g2, Distribute(0, c, g2, b, n, sigL, sigR))

\* the stored policy cast to the enum as it is
clampCtrlType_Raw(raw) == raw

\* lines 395-396 and 495-496: the stored policy clamped into the enum
clampCtrlType(raw) == Clamp(raw, 0, CTRL_TYPE_COUNT - 1)

\* line 403: the 1-based Active Dest parameter clamped and made 0-based
activeDest(raw, D) == Clamp(raw, 1, D) - 1

\* the decision with the manual branch leaving the target where it is
decideTarget_KeepsTarget(ctrl, pc, activeDestParam, state) ==
    IF ctrl # 0
    THEN pc
    ELSE [dest |-> state.targetDest, lastTriggerHigh |-> state.lastTriggerHigh]

\* lines 421-426: the decoder when a control bus is connected, the Active
\* Dest parameter when none is; pc is the decoder's result
decideTarget(ctrl, pc, activeDestParam, state) ==
    IF ctrl # 0
    THEN pc
    ELSE [dest |-> activeDestParam, lastTriggerHigh |-> state.lastTriggerHigh]

\* the control value taken from the first sample of the block
controlSample_First(b, ctrl, N) == b[ctrl][1]

\* line 422: ctrl[N - 1], the control value of the block
controlSample(b, ctrl, N) == b[ctrl][N]

\* lines 389-417 and 433-440: what the sample loop of group g works with
audioContext(g, N, D, pv, sr, targetGains) ==
    LET base == GLOBAL_PARAM_COUNT + (g * paramsPerGroupOf(D))
    IN  [N |-> N, D |-> D,
         inL |-> bus(pv[base + GP_INPUT_L]), inR |-> bus(pv[base + GP_INPUT_R]),
         volume |-> dbToGain(pv[base + GP_VOLUME]),
         destL |-> [d \in 0..(D - 1) |-> bus(pv[base + GP_DEST1_L + d * 2])],
         destR |-> [d \in 0..(D - 1) |-> bus(pv[base + GP_DEST1_R + d * 2])],
         targetGains |-> targetGains,
         rate |-> slewRate(pv[base + GP_SLEW], pv[PARAM_GLOBAL_SLEW], sr)]

\* lines 387-465: the body of step's loop for group g
StepGroup(g, N, D, pv, sr, state, b) ==
    LET base == GLOBAL_PARAM_COUNT + (g * paramsPerGroupOf(D))
        inputL == pv[base + GP_INPUT_L]
        inputR == pv[base + GP_INPUT_R]
        controlBus == pv[base + GP_CONTROL]
        volume == dbToGain(pv[base + GP_VOLUME])
        ctrlType == clampCtrlType(pv[base + GP_CTRL_TYPE])
        activeDestParam == activeDest(pv[base + GP_ACTIVE_DEST], D)
        ctrl == bus(controlBus)
        decided == decideTarget(ctrl, processControl(controlSample(b, ctrl, N), ctrlType, D, state),
                                activeDestParam, state)
        targetDest == decided.dest
        lth == decided.lastTriggerHigh
        targetGains == UpdateTargetGains(state.targetGains, targetDest, D)
        c == audioContext(g, N, D, pv, sr, targetGains)
        audio == ProcessAudio(0, c, state.destGains, b)
    IN  [state |-> [state EXCEPT !.targetDest = targetDest,
                                 !.lastTriggerHigh = lth,
                                 !.targetGains = targetGains,
                                 !.destGains = audio.destGains],
         buf |-> audio.buf]

\* line 386: groups g, g+1, ... in order, each on the buffers the previous left
RECURSIVE StepGroups(_, _, _, _, _, _, _, _)
StepGroups(g, G, N, D, pv, sr, gs, b) ==
    IF g >= G THEN [groupState |-> gs, buf |-> b]
    ELSE
        LET r == StepGroup(g, N, D, pv, sr, gs[g], b)
        IN  StepGroups(g + 1, G, N, D, pv, sr, [gs EXCEPT ![g] = r.state], r.buf)

\* no step call is under way
NotInStep == [pc |-> "idle", nBy4 |-> 0, dest |-> 0, d |-> 0]

\* the record of the last call: the callback, its arguments, and the groups
\* whose target it moved (kept for Control Changes)
NoCall == [op |-> "construct", spGroups |-> 0, spDests |-> 0,
           nBy4 |-> 0, byte0 |-> 0, byte1 |-> 0, byte2 |-> 0, retargeted |-> {}]

\* step with a bypass that mutes the outputs only: the groups are still
\* decoded and slewed
step_BypassMutesOnly(nBy4, hostBuf) ==
    LET N == nBy4 * 4
        r == StepGroups(0, numGroups, N, numDests, v, getSampleRateFloat(sampleRate),
                        groupState, hostBuf)
    IN  /\ bufIn' = hostBuf
        /\ last' = [NoCall EXCEPT !.op = "step", !.nBy4 = nBy4]
        /\ buf' = IF v[PARAM_BYPASS] # 0 THEN hostBuf ELSE r.buf
        /\ groupState' = r.groupState
        /\ UNCHANGED <<numGroups, numDests, sampleRate, v, inStep>>

\* step(b, buf, nBy4), on the bus buffers hostBuf
step(nBy4, hostBuf) ==
    LET N == nBy4 * 4
        r == StepGroups(0, numGroups, N, numDests, v, getSampleRateFloat(sampleRate),
                        groupState, hostBuf)
    IN  /\ bufIn' = hostBuf
        /\ last' = [NoCall EXCEPT !.op = "step", !.nBy4 = nBy4]
        /\ IF v[PARAM_BYPASS] # 0
           THEN /\ buf' = hostBuf
                /\ UNCHANGED groupState
           ELSE /\ buf' = r.buf
                /\ groupState' = r.groupState
        /\ UNCHANGED <<numGroups, numDests, sampleRate, v, inStep>>

(* ---------------- MIDI handling ---------------- *)
\* lines 504-505: byte2 / 127.0f * 0.9999f, times numDests, truncated
midiUnipolarDest(byte2, D) == (byte2 * 9999 * D) \div (127 * 10000)

\* the MIDI edge test without lastMidiValue: every value above 63 counts
midiRisingEdge_Level(byte2, state) == byte2 > 63

\* the MIDI edge test on the edge memory of the control bus
midiRisingEdge_SharedHistory(byte2, state) == byte2 > 63 /\ ~state.lastTriggerHigh

\* lines 509-511 and 519-521: a rising edge of the controller value
midiRisingEdge(byte2, state) == byte2 > 63 /\ ~(state.lastMidiValue > 63)

\* lines 494-545: the body of midiMessage's loop for a group that matches
MidiGroup(g, D, pv, byte2, state) ==
    LET base == GLOBAL_PARAM_COUNT + (g * paramsPerGroupOf(D))
        ctrlType == clampCtrlType(pv[base + GP_CTRL_TYPE])
        dest ==
            CASE ctrlType \in {CTRL_UNIPOLAR, CTRL_BIPOLAR} -> midiUnipolarDest(byte2, D)
              [] ctrlType = CTRL_TRIGGER ->
                    IF midiRisingEdge(byte2, state) THEN triggerNext(state.targetDest, D)
                    ELSE state.targetDest
              [] ctrlType = CTRL_TRIG_REV ->
                    IF midiRisingEdge(byte2, state) THEN triggerPrev(state.targetDest, D)
                    ELSE state.targetDest
              [] ctrlType = CTRL_GATE ->
                    IF byte2 > 63 THEN Min(1, D - 1) ELSE 0
              [] ctrlType = CTRL_GATE_REV ->
                    IF byte2 > 63 THEN 0 ELSE Min(1, D - 1)
              [] OTHER -> state.targetDest
        targetDest == Clamp(dest, 0, D - 1)
    IN  [state EXCEPT !.lastMidiValue = byte2,
                      !.targetDest = targetDest,
                      !.targetGains = UpdateTargetGains(state.targetGains, targetDest, D)]

\* the match without the channel: the controller number alone decides
MidiMatches_AnyChannel(g, D, pv, byte0, byte1) ==
    LET base == GLOBAL_PARAM_COUNT + (g * paramsPerGroupOf(D))
        midiEnableOffset == GP_DEST1_L + (D * 2)
    IN  /\ pv[base + midiEnableOffset] # 0
        /\ byte1 = pv[base + midiEnableOffset + 2]

\* the match taken on the parameters of the first group, whatever g
MidiMatches_FirstGroup(g, D, pv, byte0, byte1) ==
    LET base == GLOBAL_PARAM_COUNT
        midiEnableOffset == GP_DEST1_L + (D * 2)
        channel == (byte0 % 16) + 1
    IN  /\ pv[base + midiEnableOffset] # 0
        /\ channel = pv[base + midiEnableOffset + 1]
        /\ byte1 = pv[base + midiEnableOffset + 2]

\* lines 490-492: does the message address group g
MidiMatches(g, D, pv, byte0, byte1) ==
    LET base == GLOBAL_PARAM_COUNT + (g * paramsPerGroupOf(D))
        midiEnableOffset == GP_DEST1_L + (D * 2)
        channel == (byte0 % 16) + 1
    IN  /\ pv[base + midiEnableOffset] # 0
        /\ channel = pv[base + midiEnableOffset + 1]
        /\ byte1 = pv[base + midiEnableOffset + 2]

\* midiMessage(b, byte0, byte1, byte2)
midiMessage(byte0, byte1, byte2) ==
    LET status == byte0 - (byte0 % 16)
    IN  /\ groupState' =
              IF status # 176 THEN groupState
              ELSE [g \in DOMAIN groupState |->
                      IF MidiMatches(g, numDests, v, byte0, byte1)
                      THEN MidiGroup(g, numDests, v, byte2, groupState[g])
                      ELSE groupState[g]]
        /\ last' = [NoCall EXCEPT !.op = "midiMessage", !.byte0 = byte0,
                                  !.byte1 = byte1, !.byte2 = byte2,
                                  !.retargeted =
                                      {g \in DOMAIN groupState :
                                          groupState'[g].targetDest # groupState[g].targetDest}]
        /\ UNCHANGED <<numGroups, numDests, sampleRate, v, bufIn, buf, inStep>>

(* ---------------- the host ---------------- *)
\* the host stores a new value of parameter p
parameterChanged(p, val) ==
    /\ v[p] # val
    /\ v' = [v EXCEPT ![p] = val]
    /\ last' = [NoCall EXCEPT !.op = "parameterChanged"]
    /\ UNCHANGED <<numGroups, numDests, sampleRate, groupState, bufIn, buf, inStep>>

\* lines 219-220: a 32-bit specification value stored in a uint8_t
toUint8(x) == x % 256

\* lines 219-227: the counts construct() validates are the stored bytes
constructAccepts(spGroups, spDests) ==
    LET groups == toUint8(spGroups)
        dests == toUint8(spDests)
    IN  /\ ~(groups < 1 \/ groups > MAX_GROUPS)
        /\ ~(dests < 2 \/ dests > MAX_DESTINATIONS)

\* construct(): the specification accepted, the instance as the constructor
\* leaves it, the parameters as the host has stored them
construct(spGroups, spDests, sr, pv) ==
    /\ constructAccepts(spGroups, spDests)
    /\ numGroups = toUint8(spGroups)
    /\ numDests = toUint8(spDests)
    /\ sampleRate = sr
    /\ v = pv
    /\ groupState = [g \in 0..(numGroups - 1) |-> InitGroupState]
    /\ bufIn = [b \in 1..NumBus |-> << >>]
    /\ buf = bufIn
    /\ last = [NoCall EXCEPT !.spGroups = spGroups, !.spDests = spDests]
    /\ inStep = NotInStep

(* ---------------- what the host supplies ---------------- *)
\* a block of N samples, every one x
ConstBlock(x, N) == [n \in 1..N |-> x]

\* the parameter values construct() declares as defaults, with the busses
\* folded onto the NumBus busses of the model: no input, no control bus, no
\* destination bus
DefaultParams(G, D) ==
    [p \in 0..(GLOBAL_PARAM_COUNT + G * paramsPerGroupOf(D) - 1) |->
        IF p = PARAM_BYPASS THEN 0
        ELSE IF p = PARAM_GLOBAL_SLEW THEN 10
        ELSE LET g == (p - GLOBAL_PARAM_COUNT) \div paramsPerGroupOf(D)
                 off == (p - GLOBAL_PARAM_COUNT) % paramsPerGroupOf(D)
             IN  CASE off = GP_CURVE -> 1
                   [] off = GP_SLEW -> 10
                   [] off = GP_ACTIVE_DEST -> 1
                   [] off = GP_DEST1_L + (D * 2) + 1 -> 1
                   [] off = GP_DEST1_L + (D * 2) + 2 -> g
                   [] OTHER -> 0]

\* the host's three moves, over the values a specification gives it:
\* a block whose control bus (bus 1) holds cv throughout and whose other
\* busses hold sig
HostStep(cvs, sigs) ==
    \E nBy4 \in 1..MaxNBy4 : \E cv \in cvs : \E sig \in sigs :
        step(nBy4, [b \in 1..NumBus |-> ConstBlock(IF b = 1 THEN cv ELSE sig, nBy4 * 4)])

HostMidi(msgs) == \E m \in msgs : midiMessage(m[1], m[2], m[3])

HostParam(changes) == \E c \in changes : parameterChanged(c[1], c[2])

\* parameter p of group g
GroupParam(g, off) == GLOBAL_PARAM_COUNT + (g * paramsPerGroupOf(numDests)) + off

\* parameters of a single group with no audio routed, instant slew, and
\* MIDI enabled on channel 1, controller 0
QuietParams(D) ==
    [DefaultParams(1, D) EXCEPT ![GLOBAL_PARAM_COUNT + GP_SLEW] = 0,
                                ![GLOBAL_PARAM_COUNT + GP_DEST1_L + (D * 2)] = 1]

\* no instance has been constructed
NoInstance ==
    /\ numGroups = 0
    /\ numDests = 0
    /\ sampleRate = 48000
    /\ v = << >>
    /\ groupState = << >>
    /\ bufIn = [b \in 1..NumBus |-> << >>]
    /\ buf = bufIn
    /\ last = [NoCall EXCEPT !.op = "none"]
    /\ inStep = NotInStep

\* the host calls construct() with a specification while there is no
\* instance: a refusal (nullptr) leaves none, an acceptance leaves the
\* instance with the parameters at their defaults
constructCall(spGroups, spDests) ==
    /\ numGroups = 0
    /\ last' = [NoCall EXCEPT !.spGroups = spGroups, !.spDests = spDests]
    /\ IF constructAccepts(spGroups, spDests)
       THEN /\ numGroups' = toUint8(spGroups)
            /\ numDests' = toUint8(spDests)
            /\ v' = DefaultParams(toUint8(spGroups), toUint8(spDests))
            /\ groupState' = [g \in 0..(toUint8(spGroups) - 1) |-> InitGroupState]
       ELSE UNCHANGED <<numGroups, numDests, v, groupState>>
    /\ UNCHANGED <<sampleRate, bufIn, buf, inStep>>

(* ---------------- Spec: control bus and MIDI together ---------------- *)
\* One group, every destination count, every policy, the control bus
\* connected or not, blocks and Control Changes in any order.  Voltages
\* below, inside and above the nominal range; data bytes at both extremes.
MixCVs == {-6000, 0, 12000}

MixMsgs == {<<176, 0, 0>>, <<176, 0, 127>>, <<177, 0, 127>>}

MixChanges ==
    ({GroupParam(0, GP_CTRL_TYPE)} \X (0..(CTRL_TYPE_COUNT - 1)))
    \cup ({GroupParam(0, GP_CONTROL)} \X {0, 1})
    \cup ({GroupParam(0, GP_ACTIVE_DEST)} \X {1, 3})

Init ==
    \E D \in MIN_DESTINATIONS..MAX_DESTINATIONS : construct(1, D, 48000, QuietParams(D))

MixStep == HostStep(MixCVs, {0})

MixMidi == HostMidi(MixMsgs)

MixParam == HostParam(MixChanges)

Next == MixStep \/ MixMidi \/ MixParam

Spec == Init /\ [][Next]_vars

(* ---------------- SpecTrig: the edge-triggered policies ---------------- *)
\* One group whose control bus stays connected and whose policy stays at
\* Trigger or Trigger-Reverse; blocks with voltages on both sides of the
\* threshold, Control Changes with data bytes on both sides of 63.
CVs == {-6000, 0, 2500, 2501, 9999, 10000, 12000}

TrigMsgs == {<<176, 0, x>> : x \in {0, 63, 64, 100}} \cup {<<177, 0, 100>>}

TrigChanges == {GroupParam(0, GP_CTRL_TYPE)} \X {CTRL_TRIGGER, CTRL_TRIG_REV}

TrigParams(D) ==
    [QuietParams(D) EXCEPT ![GLOBAL_PARAM_COUNT + GP_CONTROL] = 1,
                           ![GLOBAL_PARAM_COUNT + GP_CTRL_TYPE] = CTRL_TRIGGER]

InitTrig ==
    \E D \in MIN_DESTINATIONS..MAX_DESTINATIONS : construct(1, D, 48000, TrigParams(D))

TrigStep == HostStep(CVs, {0})

TrigMidi == HostMidi(TrigMsgs)

TrigParam == HostParam(TrigChanges)

NextTrig == TrigStep \/ TrigMidi \/ TrigParam

SpecTrig == InitTrig /\ [][NextTrig]_vars

(* ---------------- SpecLevel: the level policies ---------------- *)
\* One group whose control bus stays connected; Unipolar, Trigger, Gate and
\* Gate-Reverse; every voltage of CVs; data bytes 63 and 64.
LevelMsgs == {<<176, 0, 63>>, <<176, 0, 64>>, <<176, 1, 64>>}

LevelChanges ==
    {GroupParam(0, GP_CTRL_TYPE)} \X {CTRL_UNIPOLAR, CTRL_TRIGGER, CTRL_GATE, CTRL_GATE_REV}

LevelParams(D) == [QuietParams(D) EXCEPT ![GLOBAL_PARAM_COUNT + GP_CONTROL] = 1]

InitLevel ==
    \E D \in MIN_DESTINATIONS..MAX_DESTINATIONS : construct(1, D, 48000, LevelParams(D))

LevelStep == HostStep(CVs, {0})

LevelMidi == HostMidi(LevelMsgs)

LevelParam == HostParam(LevelChanges)

NextLevel == LevelStep \/ LevelMidi \/ LevelParam

SpecLevel == InitLevel /\ [][NextLevel]_vars

(* ---------------- SpecSlew: the smoothing ---------------- *)
\* One group, no control bus: the Active Dest parameter retargets between
\* blocks and Control Changes retarget under Gate; the group's Slew is
\* negative, zero, short or long, the Global Slew zero or 100 ms.
SlewMsgs == {<<176, 0, 0>>, <<176, 0, 127>>}

SlewChanges ==
    ({GroupParam(0, GP_SLEW)} \X {-1, 0, 10, 5000})
    \cup ({PARAM_GLOBAL_SLEW} \X {0, 100})
    \cup ({GroupParam(0, GP_ACTIVE_DEST)} \X {1, 2, 3})

SlewParams(D) == [QuietParams(D) EXCEPT ![GLOBAL_PARAM_COUNT + GP_CTRL_TYPE] = CTRL_GATE,
                                        ![GLOBAL_PARAM_COUNT + GP_SLEW] = 10,
                                        ![PARAM_GLOBAL_SLEW] = 100]

InitSlew ==
    \E D \in MIN_DESTINATIONS..MAX_DESTINATIONS : construct(1, D, 48000, SlewParams(D))

SlewStep == HostStep({0}, {0})

SlewMidi == HostMidi(SlewMsgs)

SlewParam == HostParam(SlewChanges)

NextSlew == SlewStep \/ SlewMidi \/ SlewParam

SpecSlew == InitSlew /\ [][NextSlew]_vars

(* ---------------- SpecRoute: two groups, one destination bus ---------------- *)
\* the host's block for the audio path: bus b holds b * sig throughout, so
\* no two busses carry the same signal
HostAudio(sigs) ==
    \E nBy4 \in 1..MaxNBy4 : \E sig \in sigs :
        step(nBy4, [b \in 1..NumBus |-> ConstBlock(b * sig, nBy4 * 4)])

\* parameter off of group g when every group has two destinations
RouteParam2(g, off) == GLOBAL_PARAM_COUNT + (g * paramsPerGroupOf(2)) + off

\* Group 0: mono from bus 1 at 0 dB, destination 1 on bus 3, destination 2
\* nowhere, slew 100 ms.  Group 1: left from bus 2, right from bus 1, at
\* -20 dB, destination 1 with both channels on bus 3, destination 2 on
\* busses 3 and 2, slew 5 s.  Neither has a control bus: Active Dest
\* retargets.
RouteParams ==
    [DefaultParams(2, 2) EXCEPT ![RouteParam2(0, GP_INPUT_L)] = 1,
                                ![RouteParam2(0, GP_SLEW)] = 100,
                                ![RouteParam2(0, GP_DEST1_L)] = 3,
                                ![RouteParam2(1, GP_INPUT_L)] = 2,
                                ![RouteParam2(1, GP_INPUT_R)] = 1,
                                ![RouteParam2(1, GP_VOLUME)] = -200,
                                ![RouteParam2(1, GP_SLEW)] = 5000,
                                ![RouteParam2(1, GP_DEST1_L)] = 3,
                                ![RouteParam2(1, GP_DEST1_R)] = 3,
                                ![RouteParam2(1, GP_DEST1_L + 2)] = 3,
                                ![RouteParam2(1, GP_DEST1_R + 2)] = 2]

RouteSigs == {100, -300}

\* retargets of either group, and group 1's left input moved between bus 2
\* and bus 3, which group 0 writes
RouteChanges ==
    ({RouteParam2(0, GP_ACTIVE_DEST)} \X {1, 2})
    \cup ({RouteParam2(1, GP_ACTIVE_DEST)} \X {1, 2})
    \cup ({RouteParam2(1, GP_INPUT_L)} \X {2, 3})

InitRoute == construct(2, 2, 48000, RouteParams)

RouteStep == HostAudio(RouteSigs)

RouteParam == HostParam(RouteChanges)

NextRoute == RouteStep \/ RouteParam

SpecRoute == InitRoute /\ [][NextRoute]_vars

(* ---------------- SpecConstruct: construction ---------------- *)
\* The host asks for instances with specification values inside the
\* declared ranges, just outside them, and a multiple of 256 away from
\* them, up to the ends of the 32-bit range; an instance, once it exists,
\* is run with silent blocks, a Control Change and the Bypass switch.
SpecValues == {-2147483647 - 1, -255, -1, 0, 1, 2, 4, 5, 256, 257, 258, 260, 2147483647}

InitConstruct == NoInstance

ConstructRequest == \E spGroups \in SpecValues : \E spDests \in SpecValues :
    constructCall(spGroups, spDests)

ConstructStep == numGroups > 0 /\ HostStep({0}, {0})

ConstructMidi == numGroups > 0 /\ HostMidi({<<176, 0, 127>>})

ConstructParam == numGroups > 0 /\ HostParam({PARAM_BYPASS} \X {0, 1})

NextConstruct == ConstructRequest \/ ConstructStep \/ ConstructMidi \/ ConstructParam

SpecConstruct == InitConstruct /\ [][NextConstruct]_vars

(* ---------------- SpecRaw: parameter storage out of range ---------------- *)
\* One group whose stored policy is below the enum, above it, or Trigger,
\* and whose Active Dest is below 1, above D, or inside; the control bus
\* connected or not; both ends of the voltage and data-byte ranges.
RawCVs == {0, 12000}

RawMsgs == {<<176, 0, 0>>, <<176, 0, 127>>}

RawChanges ==
    ({GroupParam(0, GP_CTRL_TYPE)} \X {-3, CTRL_TRIGGER, CTRL_TYPE_COUNT, 100})
    \cup ({GroupParam(0, GP_CONTROL)} \X {0, 1})
    \cup ({GroupParam(0, GP_ACTIVE_DEST)} \X {-2, 0, 3, 7})

RawParams(D) == [QuietParams(D) EXCEPT ![GLOBAL_PARAM_COUNT + GP_CTRL_TYPE] = -3]

InitRaw ==
    \E D \in MIN_DESTINATIONS..MAX_DESTINATIONS : construct(1, D, 48000, RawParams(D))

RawStep == HostStep(RawCVs, {0})

RawMidi == HostMidi(RawMsgs)

RawParam == HostParam(RawChanges)

NextRaw == RawStep \/ RawMidi \/ RawParam

SpecRaw == InitRaw /\ [][NextRaw]_vars

(* ---------------- SpecConverge: one retarget, then blocks for ever ---------------- *)
\* One group without a control bus, settled on destination 1.  The group's
\* Slew is instant, 10 ms, 100 ms or 5 s and stays what it is; Active Dest
\* moves to 2 once; the host keeps calling step with non-empty blocks.
ConvergeSlews == {0, 10, 100, 5000}

ConvergeRates == {44100, 48000, 96000}

ConvergeParams(D, slew) == [QuietParams(D) EXCEPT ![GLOBAL_PARAM_COUNT + GP_SLEW] = slew]

InitConverge ==
    \E D \in MIN_DESTINATIONS..MAX_DESTINATIONS : \E slew \in ConvergeSlews :
        \E sr \in ConvergeRates : construct(1, D, sr, ConvergeParams(D, slew))

ConvergeStep == HostStep({0}, {0, 100})

ConvergeRetarget == HostParam({GroupParam(0, GP_ACTIVE_DEST)} \X {2})

NextConverge == ConvergeStep \/ ConvergeRetarget

\* what every ConvergeStep, and no other step of NextConverge, does to the
\* record of the last call and to the block handed over
StepIsCalled ==
    \E nBy4 \in 1..MaxNBy4 : \E sig \in {0, 100} :
        /\ last' = [NoCall EXCEPT !.op = "step", !.nBy4 = nBy4]
        /\ bufIn' = [b \in 1..NumBus |-> ConstBlock(IF b = 1 THEN 0 ELSE sig, nBy4 * 4)]

\* the audio callback is periodic: the host never stops calling step
SpecConverge ==
    InitConverge /\ [][NextConverge]_vars /\ WF_<<last, bufIn>>(StepIsCalled)

(* ---------------- SpecVolume: one group, its volume ---------------- *)
\* One group, mono from bus 2, destination 1 on busses 3 and 1, the others
\* nowhere, slew 10 ms; the volume at its minimum, at 0 dB and at its
\* maximum; Active Dest retargets.
VolumeParams(D) ==
    [DefaultParams(1, D) EXCEPT ![GLOBAL_PARAM_COUNT + GP_INPUT_L] = 2,
                                ![GLOBAL_PARAM_COUNT + GP_DEST1_L] = 3,
                                ![GLOBAL_PARAM_COUNT + GP_DEST1_R] = 1]

VolumeChanges ==
    ({GroupParam(0, GP_VOLUME)} \X {-400, 0, 60})
    \cup ({GroupParam(0, GP_ACTIVE_DEST)} \X {1, 2})

InitVolume ==
    \E D \in MIN_DESTINATIONS..MAX_DESTINATIONS : construct(1, D, 48000, VolumeParams(D))

VolumeStep == HostAudio(RouteSigs)

VolumeParam == HostParam(VolumeChanges)

NextVolume == VolumeStep \/ VolumeParam

SpecVolume == InitVolume /\ [][NextVolume]_vars

(* ---------------- SpecPulse: control blocks that are not flat ---------------- *)
\* One group, control bus 1, mono from bus 2 or from the control bus itself,
\* destination 1 (left) and destination 2 (right) on bus 3, slew 10 ms, under Trigger, Unipolar or Gate.  The
\* control bus of a block holds one level at its first sample, one in the
\* middle and one at its last sample; the other busses carry audio.
PulseLevels == {0, 12000}

PulseParams(D) ==
    [QuietParams(D) EXCEPT ![GLOBAL_PARAM_COUNT + GP_CONTROL] = 1,
                           ![GLOBAL_PARAM_COUNT + GP_CTRL_TYPE] = CTRL_TRIGGER,
                           ![GLOBAL_PARAM_COUNT + GP_INPUT_L] = 2,
                           ![GLOBAL_PARAM_COUNT + GP_DEST1_L] = 3,
                           ![GLOBAL_PARAM_COUNT + GP_DEST1_R + 2] = 3,
                           ![GLOBAL_PARAM_COUNT + GP_SLEW] = 10]

PulseChanges ==
    ({GroupParam(0, GP_CTRL_TYPE)} \X {CTRL_UNIPOLAR, CTRL_TRIGGER, CTRL_GATE})
    \cup ({GroupParam(0, GP_INPUT_L)} \X {1, 2})

\* the host's block: the control bus shaped first, middle, last
HostPulse(levels) ==
    \E nBy4 \in 1..MaxNBy4 : \E first \in levels : \E middle \in levels : \E final \in levels :
        LET N == nBy4 * 4
            shape == [n \in 1..N |-> IF n = N THEN final
                                     ELSE IF n = 1 THEN first ELSE middle]
        IN  step(nBy4, [b \in 1..NumBus |-> IF b = 1 THEN shape ELSE ConstBlock(b * 100, N)])

InitPulse ==
    \E D \in MIN_DESTINATIONS..MAX_DESTINATIONS : construct(1, D, 48000, PulseParams(D))

PulseStep == HostPulse(PulseLevels)

PulseParam == HostParam(PulseChanges)

NextPulse == PulseStep \/ PulseParam

SpecPulse == InitPulse /\ [][NextPulse]_vars

(* ---------------- SpecMidi: two groups, one MIDI stream ---------------- *)
\* Two groups without control bus, group 0 under Trigger and group 1 under
\* Gate, both with MIDI enabled on channel 1, controllers 0 and 1.  Control
\* Changes and Note Ons on channels 1 and 2, controllers 0 and 1; group 0's
\* MIDI Enable, group 1's channel, controller and Active Dest change.
MidiStream == ({176, 177, 144} \X {0, 1}) \X {0, 100}

MidiParams(D) ==
    LET ppg == paramsPerGroupOf(D)
    IN  [DefaultParams(2, D) EXCEPT ![GLOBAL_PARAM_COUNT + GP_SLEW] = 0,
                                    ![GLOBAL_PARAM_COUNT + ppg + GP_SLEW] = 0,
                                    ![GLOBAL_PARAM_COUNT + GP_CTRL_TYPE] = CTRL_TRIGGER,
                                    ![GLOBAL_PARAM_COUNT + ppg + GP_CTRL_TYPE] = CTRL_GATE,
                                    ![GLOBAL_PARAM_COUNT + GP_DEST1_L + (D * 2)] = 1,
                                    ![GLOBAL_PARAM_COUNT + ppg + GP_DEST1_L + (D * 2)] = 1]

MidiChanges ==
    ({GroupParam(0, GP_DEST1_L + 2 * numDests)} \X {0, 1})
    \cup ({GroupParam(1, GP_DEST1_L + 2 * numDests + 1)} \X {1, 2})
    \cup ({GroupParam(1, GP_DEST1_L + 2 * numDests + 2)} \X {0, 1})
    \cup ({GroupParam(1, GP_ACTIVE_DEST)} \X {1, 2})

InitMidi ==
    \E D \in MIN_DESTINATIONS..MAX_DESTINATIONS : construct(2, D, 48000, MidiParams(D))

MidiStep == HostStep({0}, {0})

MidiMidi == \E m \in MidiStream : midiMessage(m[1][1], m[1][2], m[2])

MidiParam == HostParam(MidiChanges)

NextMidi == MidiStep \/ MidiMidi \/ MidiParam

SpecMidi == InitMidi /\ [][NextMidi]_vars

(* ---------------- SpecRace: a Control Change inside a step call ---------------- *)
\* step taken apart for one group, at the reads and writes of the fields
\* midiMessage writes too.  Nothing orders the two callbacks against each
\* other, so a Control Change may run between any two of these steps.

\* lines 373-379: step is entered with a block; bypassed, it returns at once
stepEnter(nBy4, hostBuf) ==
    /\ inStep.pc = "idle"
    /\ bufIn' = hostBuf
    /\ buf' = hostBuf
    /\ IF v[PARAM_BYPASS] # 0
       THEN /\ last' = [NoCall EXCEPT !.op = "step", !.nBy4 = nBy4]
            /\ UNCHANGED inStep
       ELSE /\ inStep' = [NotInStep EXCEPT !.pc = "decode", !.nBy4 = nBy4]
            /\ UNCHANGED last
    /\ UNCHANGED <<numGroups, numDests, sampleRate, v, groupState>>

\* lines 419-426, right-hand side: the decision is computed from the target
\* as it is now; processControl has stored lastTriggerHigh when it returns
stepDecode ==
    /\ inStep.pc = "decode"
    /\ LET base == GLOBAL_PARAM_COUNT
           ctrl == bus(v[base + GP_CONTROL])
           decided == decideTarget(ctrl,
                          processControl(controlSample(buf, ctrl, inStep.nBy4 * 4),
                                         clampCtrlType(v[base + GP_CTRL_TYPE]),
                                         numDests, groupState[0]),
                          activeDest(v[base + GP_ACTIVE_DEST], numDests), groupState[0])
       IN  /\ groupState' = [groupState EXCEPT ![0].lastTriggerHigh = decided.lastTriggerHigh]
           /\ inStep' = [inStep EXCEPT !.pc = "store", !.dest = decided.dest]
    /\ UNCHANGED <<numGroups, numDests, sampleRate, v, bufIn, buf, last>>

\* lines 421-425, the assignment: state.targetDest takes the decision
stepStore ==
    /\ inStep.pc = "store"
    /\ groupState' = [groupState EXCEPT ![0].targetDest = inStep.dest]
    /\ inStep' = [inStep EXCEPT !.pc = "gains", !.d = 0]
    /\ UNCHANGED <<numGroups, numDests, sampleRate, v, bufIn, buf, last>>

\* lines 429-431, one turn of the loop: targetGains[d] is written from a
\* comparison of d with state.targetDest.  The field is written by
\* midiMessage without synchronisation: the value compared is the one step
\* stored (kept in a register, or read before the Control Change) or the
\* one in memory now.
stepGain ==
    /\ inStep.pc = "gains"
    /\ \E t \in {inStep.dest, groupState[0].targetDest} :
          groupState' = [groupState EXCEPT
                            ![0].targetGains[inStep.d] = IF inStep.d = t THEN One ELSE 0]
    /\ inStep' = IF inStep.d + 1 < numDests
                 THEN [inStep EXCEPT !.d = inStep.d + 1]
                 ELSE [inStep EXCEPT !.pc = "audio"]
    /\ UNCHANGED <<numGroups, numDests, sampleRate, v, bufIn, buf, last>>

\* lines 433-466: the sample loop, which writes destGains and the busses and
\* neither targetDest nor targetGains; step returns
stepAudio ==
    /\ inStep.pc = "audio"
    /\ LET N == inStep.nBy4 * 4
           c == audioContext(0, N, numDests, v, getSampleRateFloat(sampleRate),
                             groupState[0].targetGains)
           audio == ProcessAudio(0, c, groupState[0].destGains, buf)
       IN  /\ groupState' = [groupState EXCEPT ![0].destGains = audio.destGains]
           /\ buf' = audio.buf
    /\ last' = [NoCall EXCEPT !.op = "step", !.nBy4 = inStep.nBy4]
    /\ inStep' = NotInStep
    /\ UNCHANGED <<numGroups, numDests, sampleRate, v, bufIn>>

\* One group under Gate with the control bus connected and MIDI enabled;
\* blocks with the control low or high, Control Changes 0 and 127.
RaceParams(D) ==
    [QuietParams(D) EXCEPT ![GLOBAL_PARAM_COUNT + GP_CONTROL] = 1,
                           ![GLOBAL_PARAM_COUNT + GP_CTRL_TYPE] = CTRL_GATE]

RaceMsgs == {<<176, 0, 0>>, <<176, 0, 127>>}

InitRace ==
    \E D \in MIN_DESTINATIONS..MAX_DESTINATIONS : construct(1, D, 48000, RaceParams(D))

RaceEnter ==
    \E nBy4 \in 1..MaxNBy4 : \E cv \in {0, 12000} :
        stepEnter(nBy4, [b \in 1..NumBus |-> ConstBlock(IF b = 1 THEN cv ELSE 0, nBy4 * 4)])

RaceMidi == HostMidi(RaceMsgs)

NextRace == RaceEnter \/ stepDecode \/ stepStore \/ stepGain \/ stepAudio \/ RaceMidi

SpecRace == InitRace /\ [][NextRace]_vars

(* ---------------- SpecRetarget: three ways to move the target ---------------- *)
\* One group under Trigger, slew 100 ms.  The control bus, connected at
\* first, carries low and high blocks; Control Changes 0 and 127 arrive;
\* the control bus is disconnected and reconnected and Active Dest moves.
RetargetParams(D) ==
    [QuietParams(D) EXCEPT ![GLOBAL_PARAM_COUNT + GP_CONTROL] = 1,
                           ![GLOBAL_PARAM_COUNT + GP_CTRL_TYPE] = CTRL_TRIGGER,
                           ![GLOBAL_PARAM_COUNT + GP_SLEW] = 100]

RetargetMsgs == {<<176, 0, 0>>, <<176, 0, 127>>}

RetargetChanges ==
    ({GroupParam(0, GP_CONTROL)} \X {0, 1})
    \cup ({GroupParam(0, GP_ACTIVE_DEST)} \X {1, 2})

InitRetarget ==
    \E D \in MIN_DESTINATIONS..MAX_DESTINATIONS : construct(1, D, 48000, RetargetParams(D))

RetargetStep == HostStep({0, 12000}, {0})

RetargetMidi == HostMidi(RetargetMsgs)

RetargetParam == HostParam(RetargetChanges)

NextRetarget == RetargetStep \/ RetargetMidi \/ RetargetParam

SpecRetarget == InitRetarget /\ [][NextRetarget]_vars

(* ---------------- SpecBypass: the global Bypass ---------------- *)
\* One group under Trigger, control bus 1, mono from bus 2, destination 1 on
\* bus 3, slew 100 ms.  Blocks carry the control low or high and audio; the
\* Bypass parameter goes on and off; Control Changes 0 and 127 arrive.
BypassParams(D) ==
    [QuietParams(D) EXCEPT ![GLOBAL_PARAM_COUNT + GP_CONTROL] = 1,
                           ![GLOBAL_PARAM_COUNT + GP_CTRL_TYPE] = CTRL_TRIGGER,
                           ![GLOBAL_PARAM_COUNT + GP_INPUT_L] = 2,
                           ![GLOBAL_PARAM_COUNT + GP_DEST1_L] = 3,
                           ![GLOBAL_PARAM_COUNT + GP_SLEW] = 100]

BypassMsgs == {<<176, 0, 0>>, <<176, 0, 127>>}

InitBypass ==
    \E D \in MIN_DESTINATIONS..MAX_DESTINATIONS : construct(1, D, 48000, BypassParams(D))

BypassStep == HostStep({0, 12000}, {100})

BypassMidi == HostMidi(BypassMsgs)

BypassParam == HostParam({PARAM_BYPASS} \X {0, 1})

NextBypass == BypassStep \/ BypassMidi \/ BypassParam

SpecBypass == InitBypass /\ [][NextBypass]_vars

(* ---------------- SpecSum: the slew in binary floating point ---------------- *)
\* The gain grid of the other specifications is uniform: it cannot carry a
\* rounding error smaller than one of its steps.  Here the current gains
\* are kept as small binary floats instead: integers in steps of
\* 1/FloatOne, of which only those with a significand of One \div 2 steps
\* are values (spacing Sub just below 1.0, halved at every halving of the
\* value, 1 at the bottom), and every operation of line 454 rounds to the
\* nearest value, ties to even, as IEEE arithmetic does.
Sub == 8

FloatOne == One * Sub

\* the spacing of the values around n
RECURSIVE floatSpacing(_, _)
floatSpacing(n, q) ==
    IF (One \div 2) * q * 2 <= n THEN floatSpacing(n, q * 2) ELSE q

\* the integer nearest to num / den, ties to the even one (num >= 0)
roundHalfEven(num, den) ==
    LET k == num \div den
        r == num % den
    IN  IF 2 * r > den \/ (2 * r = den /\ k % 2 = 1) THEN k + 1 ELSE k

\* the value nearest to num / den
floatRound(num, den) ==
    LET q == floatSpacing(num \div den, 1)
    IN  q * roundHalfEven(num, den * q)

\* line 454 for one destination: gain += (target - gain) * slewRate, the
\* difference, the product and the sum each rounded; rate is in steps of
\* 1/FloatOne
floatSlew(gain, target, rate) ==
    LET diff == floatRound(IF target >= gain THEN target - gain ELSE gain - target, 1)
        prod == floatRound(diff * rate, FloatOne)
    IN  IF target >= gain THEN floatRound(gain + prod, 1)
        ELSE IF prod >= gain THEN 0 ELSE floatRound(gain - prod, 1)

\* lines 452-455, n samples
RECURSIVE floatSlewGains(_, _, _, _, _)
floatSlewGains(n, destGains, targetGains, rate, D) ==
    IF n = 0 THEN destGains
    ELSE LET slot(d) ==
                 IF d < D THEN floatSlew(destGains[d], targetGains[d] * Sub, rate)
                 ELSE destGains[d]
         IN  floatSlewGains(n - 1, Gains(slot(0), slot(1), slot(2), slot(3)),
                            targetGains, rate, D)

\* step for one group with no audio routed, the current gains in floating
\* point: the decision and the target gains as in step, the slew as above
stepFloat(nBy4, hostBuf) ==
    LET base == GLOBAL_PARAM_COUNT
        state == groupState[0]
        ctrl == bus(v[base + GP_CONTROL])
        decided == decideTarget(ctrl,
                       processControl(controlSample(hostBuf, ctrl, nBy4 * 4),
                                      clampCtrlType(v[base + GP_CTRL_TYPE]),
                                      numDests, state),
                       activeDest(v[base + GP_ACTIVE_DEST], numDests), state)
        targetGains == UpdateTargetGains(state.targetGains, decided.dest, numDests)
        rate == slewRate(v[base + GP_SLEW], v[PARAM_GLOBAL_SLEW],
                         getSampleRateFloat(sampleRate)) * Sub
    IN  /\ bufIn' = hostBuf
        /\ buf' = hostBuf
        /\ last' = [NoCall EXCEPT !.op = "step", !.nBy4 = nBy4]
        /\ groupState' =
              IF v[PARAM_BYPASS] # 0 THEN groupState
              ELSE [groupState EXCEPT
                      ![0] = [state EXCEPT
                                !.targetDest = decided.dest,
                                !.lastTriggerHigh = decided.lastTriggerHigh,
                                !.targetGains = targetGains,
                                !.destGains = floatSlewGains(nBy4 * 4, state.destGains,
                                                             targetGains, rate, numDests)]]
        /\ UNCHANGED <<numGroups, numDests, sampleRate, v, inStep>>

\* One group, no control bus, slew 10 ms; Active Dest retargets and the
\* slew changes between blocks.
SumParams(D) == [QuietParams(D) EXCEPT ![GLOBAL_PARAM_COUNT + GP_SLEW] = 10]

SumChanges ==
    ({GroupParam(0, GP_ACTIVE_DEST)} \X {1, 2, 3})
    \cup ({GroupParam(0, GP_SLEW)} \X {10, 100, 5000})

\* the instance as constructed, its first current gain 1.0
InitSum ==
    \E D \in MIN_DESTINATIONS..MAX_DESTINATIONS :
        /\ numGroups = 1
        /\ numDests = D
        /\ sampleRate = 48000
        /\ v = SumParams(D)
        /\ groupState = [g \in 0..0 |->
                            [InitGroupState EXCEPT !.destGains = Gains(FloatOne, 0, 0, 0)]]
        /\ bufIn = [b \in 1..NumBus |-> << >>]
        /\ buf = bufIn
        /\ last = [NoCall EXCEPT !.spGroups = 1, !.spDests = D]
        /\ inStep = NotInStep

SumStep ==
    \E nBy4 \in 1..MaxNBy4 : stepFloat(nBy4, [b \in 1..NumBus |-> ConstBlock(0, nBy4 * 4)])

SumParam == HostParam(SumChanges)

NextSum == SumStep \/ SumParam

SpecSum == InitSum /\ [][NextSum]_vars

(* ---------------- vocabulary of the properties ---------------- *)
Groups == DOMAIN groupState

Dests == 0..(numDests - 1)

\* the stored policy of group g, and whether its control bus is connected
Policy(g) == v[GroupParam(g, GP_CTRL_TYPE)]

ControlBus(g) == v[GroupParam(g, GP_CONTROL)]

\* the control sample a block b offers group g: the last one of its bus
ControlSample(g, b) == b[ControlBus(g)][Len(b[ControlBus(g)])]

\* the last callback was an audio block that was processed, and group g
\* decoded its control bus in it
Decoded(g) == last.op = "step" /\ v[PARAM_BYPASS] = 0 /\ ControlBus(g) > 0

\* a Control Change with these bytes addresses group g
Addressed(g, byte0, byte1) ==
    /\ byte0 \in 176..191
    /\ v[GroupParam(g, GP_DEST1_L + 2 * numDests)] # 0
    /\ v[GroupParam(g, GP_DEST1_L + 2 * numDests + 1)] = byte0 - 176 + 1
    /\ v[GroupParam(g, GP_DEST1_L + 2 * numDests + 2)] = byte1

\* the last callback was a Control Change addressed to group g
Received(g) == last.op = "midiMessage" /\ Addressed(g, last.byte0, last.byte1)

(* ---------------- C1 ---------------- *)
\* C1: whatever the policy, the destination count and the control value
\* (voltages outside the nominal range and every data byte included), the
\* target destination of every group is in 0..D-1 in every reachable state.
C1_TargetDestInRange == \A g \in Groups : groupState[g].targetDest \in Dests

\* a voltage above the ceiling decoded under Unipolar with four destinations
C1_Witness ==
    /\ numDests = 4 /\ Decoded(0) /\ Policy(0) = CTRL_UNIPOLAR
    /\ ControlSample(0, bufIn) = 12000
    /\ groupState[0].targetDest = 3

(* ---------------- C2 ---------------- *)
\* C2: with the control bus connected and the policy held at Trigger or
\* Trigger-Reverse, a block changes the target destination only if its
\* control sample is above 2.5 V and the sample the previous block decoded
\* was not.
C2_TriggerOnlyOnRisingEdge ==
    [][(last'.op = "step" /\ groupState'[0].targetDest # groupState[0].targetDest)
        => /\ ControlSample(0, bufIn') > 2500
           /\ ~(Len(bufIn[1]) > 0 /\ ControlSample(0, bufIn) > 2500)]_vars

\* a block that found the control high after an earlier advance
C2_Witness ==
    /\ Decoded(0) /\ Policy(0) = CTRL_TRIGGER
    /\ ControlSample(0, bufIn) = 12000
    /\ groupState[0].lastTriggerHigh
    /\ groupState[0].targetDest = 1

(* ---------------- C3 ---------------- *)
\* C3: under Trigger, a Control Change addressed to the group advances the
\* target by one (modulo D) exactly when its data byte is above 63 and the
\* byte the group received before was not (0 before any); every addressed
\* message leaves its data byte as the value received, every other message
\* leaves that value alone.
C3_MidiTriggerOnEdge ==
    [][last'.op = "midiMessage" =>
        IF Addressed(0, last'.byte0, last'.byte1)
        THEN /\ groupState'[0].lastMidiValue = last'.byte2
             /\ Policy(0) = CTRL_TRIGGER =>
                  groupState'[0].targetDest =
                     IF last'.byte2 > 63 /\ groupState[0].lastMidiValue <= 63
                     THEN (groupState[0].targetDest + 1) % numDests
                     ELSE groupState[0].targetDest
        ELSE groupState'[0].lastMidiValue = groupState[0].lastMidiValue]_vars

\* the closing 0 of the sequence 0, 0, 100, 100, 0: the target is one past
\* the initial destination
C3_Witness ==
    /\ Received(0) /\ Policy(0) = CTRL_TRIGGER
    /\ last.byte2 = 0
    /\ groupState[0].lastMidiValue = 0
    /\ groupState[0].targetDest = 1

(* ---------------- C4 ---------------- *)
\* C4: in every state reached by blocks and MIDI messages the target gains
\* of every group are one-hot over the slots 0..D-1: 1.0 at the target
\* destination, 0.0 elsewhere.
C4_TargetGainsOneHot ==
    \A g \in Groups : \A d \in Dests :
        groupState[g].targetGains[d] = IF d = groupState[g].targetDest THEN One ELSE 0

\* a Control Change has moved the target to the last of four destinations
C4_Witness ==
    /\ numDests = 4 /\ Received(0)
    /\ groupState[0].targetDest = 3
    /\ groupState[0].targetGains[3] = One

(* ---------------- C6 ---------------- *)
\* C6: Gate and Gate-Reverse decide from the current level and D alone.
\* After a block decoded under Gate the target is 1 if the control sample
\* was above 2.5 V and 0 if not, under Gate-Reverse the other way round;
\* after a Control Change received under Gate the target is 1 if the data
\* byte was above 63 and 0 if not, under Gate-Reverse the other way round.
C6_GateIsLevelBased ==
    /\ (Decoded(0) /\ Policy(0) = CTRL_GATE) =>
          groupState[0].targetDest = (IF ControlSample(0, bufIn) > 2500 THEN 1 ELSE 0)
    /\ (Decoded(0) /\ Policy(0) = CTRL_GATE_REV) =>
          groupState[0].targetDest = (IF ControlSample(0, bufIn) > 2500 THEN 0 ELSE 1)
    /\ (Received(0) /\ Policy(0) = CTRL_GATE) =>
          groupState[0].targetDest = (IF last.byte2 > 63 THEN 1 ELSE 0)
    /\ (Received(0) /\ Policy(0) = CTRL_GATE_REV) =>
          groupState[0].targetDest = (IF last.byte2 > 63 THEN 0 ELSE 1)

\* a block decoded under Gate exactly at the threshold, the edge history
\* high from an earlier Trigger block
C6_Witness ==
    /\ Decoded(0) /\ Policy(0) = CTRL_GATE
    /\ ControlSample(0, bufIn) = 2500
    /\ groupState[0].lastTriggerHigh
    /\ groupState[0].targetDest = 0

(* ---------------- C7 ---------------- *)
\* floor(x * D / 10000), said without division
FloorTimesD(x, D) == CHOOSE k \in 0..D : k * 10000 <= x * D /\ x * D < (k + 1) * 10000

\* C7: after a block decoded under Unipolar the target is
\* floor(clamp(cv/10, 0, 0.9999) * D); with four destinations 0 V gives 0,
\* 9.999 V gives 3, 10 V and more give 3; a negative voltage gives 0; and
\* no higher voltage would have given a lower destination.
C7_UnipolarQuantisation ==
    (Decoded(0) /\ Policy(0) = CTRL_UNIPOLAR) =>
        LET cv == ControlSample(0, bufIn)
            td == groupState[0].targetDest
        IN  /\ td = FloorTimesD(Clamp(cv, 0, 9999), numDests)
            /\ cv < 0 => td = 0
            /\ (numDests = 4 /\ cv = 0) => td = 0
            /\ (numDests = 4 /\ cv = 9999) => td = 3
            /\ (numDests = 4 /\ cv >= 10000) => td = 3
            /\ \A hi \in CVs : hi >= cv => FloorTimesD(Clamp(hi, 0, 9999), numDests) >= td

\* 9.999 V decoded under Unipolar with four destinations
C7_Witness ==
    /\ numDests = 4 /\ Decoded(0) /\ Policy(0) = CTRL_UNIPOLAR
    /\ ControlSample(0, bufIn) = 9999
    /\ groupState[0].targetDest = 3

(* ---------------- C5 ---------------- *)
\* C5: in every reachable state, whatever the blocks, retargets, Control
\* Changes and slew settings before it, every current gain of a group
\* (slots 0..D-1) is between 0.0 and 1.0.
C5_DestGainsInUnitRange ==
    \A g \in Groups : \A d \in Dests :
        groupState[g].destGains[d] >= 0 /\ groupState[g].destGains[d] <= One

\* a retarget during a transition: a block has ended with the gain of the
\* destination left behind part-way down and the gain of the new target
\* part-way up, the first destination silent by then
C5_Witness ==
    /\ last.op = "step" /\ numDests = 3
    /\ groupState[0].targetDest = 2
    /\ groupState[0].destGains[0] = 0
    /\ groupState[0].destGains[1] \in 1..(One - 1)
    /\ groupState[0].destGains[2] \in 1..(One - 1)

(* ---------------- C8 ---------------- *)
\* the group's Slew and the Global Slew parameters, in milliseconds
Slew(g) == v[GroupParam(g, GP_SLEW)]

GlobalSlew == v[PARAM_GLOBAL_SLEW]

\* the coefficient of the global time constant
GlobalRate == slewRateOf(getSampleRateFloat(sampleRate), GlobalSlew * 1000)

\* gains after n more samples of a slew toward target at a rate
RECURSIVE Slewed(_, _, _, _)
Slewed(n, gains, target, rate) ==
    IF n = 0 THEN gains
    ELSE Slewed(n - 1, SlewGains(gains, target, rate, numDests), target, rate)

\* some current gain is two grid steps or more from its target
FarFrom(gains, target) ==
    \E d \in Dests : gains[d] - target[d] >= 2 \/ target[d] - gains[d] >= 2

\* a block of group 0 run with the global time constant: the gains it
\* leaves are the gains slewed at the global rate through its N samples,
\* and gains far from the target are not at the target after one sample
UsesGlobalSlew ==
    LET before == groupState[0].destGains
        target == groupState'[0].targetGains
    IN  /\ groupState'[0].destGains = Slewed(last'.nBy4 * 4, before, target, GlobalRate)
        /\ FarFrom(before, target) => SlewGains(before, target, GlobalRate, numDests) # target

\* C8 as stated: a block run with the group's Slew at exactly zero and the
\* Global Slew above zero uses the global time constant.
C8_ZeroSlewUsesGlobal ==
    [][(last'.op = "step" /\ Slew(0) = 0 /\ GlobalSlew > 0) => UsesGlobalSlew]_vars

\* C8, amended: a block run with the group's Slew below zero and the Global
\* Slew above zero uses the global time constant: the gains are slewed
\* toward the target at the global rate and do not snap to it within one
\* sample.  (A group's Slew of exactly zero switches instantly.)
C8_NegativeSlewUsesGlobal ==
    [][(last'.op = "step" /\ Slew(0) < 0 /\ GlobalSlew > 0) => UsesGlobalSlew]_vars

\* a block run on the global time constant has ended part-way to a new
\* target
C8_Witness ==
    /\ last.op = "step" /\ Slew(0) < 0 /\ GlobalSlew = 100
    /\ groupState[0].targetDest = 1
    /\ groupState[0].destGains[1] \in 1..(One - 1)

(* ---------------- C9 ---------------- *)
\* C9: a block run with the group's Slew at 0 switches instantly whatever
\* the Global Slew: the smoothing rate is 1, the first sample of the block
\* already puts every current gain (slots 0..D-1) on its target gain, and
\* so does the block.
C9_ZeroSlewIsInstant ==
    [][(last'.op = "step" /\ Slew(0) = 0) =>
        LET before == groupState[0].destGains
            target == groupState'[0].targetGains
            rate == slewRate(Slew(0), GlobalSlew, getSampleRateFloat(sampleRate))
        IN  /\ rate = One
            /\ \A d \in Dests :
                 /\ SlewGains(before, target, rate, numDests)[d] = target[d]
                 /\ groupState'[0].destGains[d] = target[d]]_vars

\* a block with the group's Slew at 0 and the Global Slew at 100 ms has
\* ended on a new target
C9_Witness ==
    /\ last.op = "step" /\ Slew(0) = 0 /\ GlobalSlew = 100
    /\ groupState[0].targetDest = 2
    /\ groupState[0].destGains[2] = One
    /\ groupState[0].destGains[0] = 0

(* ---------------- C10 ---------------- *)
\* the busses group g reads (inputs and control) and the busses its
\* destinations are routed to
Reads(g) ==
    {v[GroupParam(g, GP_INPUT_L)], v[GroupParam(g, GP_INPUT_R)],
     v[GroupParam(g, GP_CONTROL)]} \ {0}

Writes(g) ==
    UNION {{v[GroupParam(g, GP_DEST1_L + 2 * d)],
            v[GroupParam(g, GP_DEST1_R + 2 * d)]} : d \in Dests} \ {0}

\* no group reads a bus that a group processed before it writes
NoFeedThrough ==
    \A g1 \in Groups : \A g2 \in Groups : g1 < g2 => Reads(g2) \cap Writes(g1) = {}

\* what group g on its own adds to sample n (from 1) of bus B in the block
\* just run: of every destination routed to B, the signal of the block as
\* the host handed it, times the volume, times the gain smoothed n samples
\* on from the gains before the block; a gain not above 0.0001 adds nothing
RECURSIVE ContributionFrom(_, _, _, _)
ContributionFrom(d, g, B, n) ==
    IF d >= numDests THEN 0
    ELSE
        LET inL == v[GroupParam(g, GP_INPUT_L)]
            inR == v[GroupParam(g, GP_INPUT_R)]
            volume == dbToGain(v[GroupParam(g, GP_VOLUME)])
            rate == slewRate(Slew(g), GlobalSlew, getSampleRateFloat(sampleRate))
            gain == Slewed(n, groupState[g].destGains, groupState'[g].targetGains, rate)[d]
            sigL0 == IF inL # 0 THEN bufIn'[inL][n] ELSE 0
            sigR0 == IF inR # 0 THEN bufIn'[inR][n] ELSE sigL0
            addL == IF v[GroupParam(g, GP_DEST1_L + 2 * d)] = B
                    THEN RoundDiv(ApplyVolume(sigL0, volume) * gain, One) ELSE 0
            addR == IF v[GroupParam(g, GP_DEST1_R + 2 * d)] = B
                    THEN RoundDiv(ApplyVolume(sigR0, volume) * gain, One) ELSE 0
        IN  (IF gain * 10000 > One THEN addL + addR ELSE 0)
            + ContributionFrom(d + 1, g, B, n)

RECURSIVE ContributionsFrom(_, _, _)
ContributionsFrom(g, B, n) ==
    IF g >= numGroups THEN 0
    ELSE ContributionFrom(0, g, B, n) + ContributionsFrom(g + 1, B, n)

\* every sample of every bus after the block is its value before the block
\* plus the sum of what each group adds on its own
Superposition ==
    \A B \in 1..NumBus : \A n \in 1..(last'.nBy4 * 4) :
        buf'[B][n] = bufIn'[B][n] + ContributionsFrom(0, B, n)

\* C10 as stated: a processed block leaves every destination sample at its
\* value before the block plus the sum of the contributions each group
\* would have produced on its own.
C10_StepOnlyAdds ==
    [][(last'.op = "step" /\ v[PARAM_BYPASS] = 0) => Superposition]_vars

\* C10, amended: the same, provided no group reads (as input or control) a
\* bus that a group processed before it writes.
C10_StepOnlyAddsWithoutFeedThrough ==
    [][(last'.op = "step" /\ v[PARAM_BYPASS] = 0 /\ NoFeedThrough) => Superposition]_vars

\* a block in which both groups, each part-way through a transition, have
\* added to bus 3 from inputs of their own
C10_Witness ==
    /\ last.op = "step" /\ numGroups = 2 /\ NoFeedThrough
    /\ 3 \in Writes(0) \cap Writes(1)
    /\ groupState[0].destGains[0] \in 1..(One - 1)
    /\ groupState[1].destGains[0] \in 1..(One - 1)
    /\ buf[3][1] # bufIn[3][1]

(* ---------------- C11 ---------------- *)
\* C11: a processed block of a group whose control bus selector is 0 leaves
\* the target at clamp(Active Dest, 1, D) - 1 under every policy, and
\* leaves the edge history of the control bus as it was.
C11_NoControlBusUsesActiveDest ==
    [][(last'.op = "step" /\ v[PARAM_BYPASS] = 0 /\ ControlBus(0) = 0) =>
        /\ groupState'[0].targetDest = Clamp(v[GroupParam(0, GP_ACTIVE_DEST)], 1, numDests) - 1
        /\ groupState'[0].lastTriggerHigh = groupState[0].lastTriggerHigh]_vars

\* a block under Trigger with no control bus, Active Dest 3 of two
\* destinations, the edge history high from an earlier connected block
C11_Witness ==
    /\ last.op = "step" /\ ControlBus(0) = 0 /\ Policy(0) = CTRL_TRIGGER
    /\ numDests = 2 /\ v[GroupParam(0, GP_ACTIVE_DEST)] = 3
    /\ groupState[0].lastTriggerHigh
    /\ groupState[0].targetDest = 1

(* ---------------- C12 ---------------- *)
\* C12 as stated: construct leaves an instance exactly when the requested
\* group count is in 1..4 and the requested destination count is in 2..4,
\* whatever 32-bit values are requested; and no instance has fewer than two
\* destinations.
C12_ConstructRefusesOutOfRange ==
    /\ numGroups > 0 => numDests >= 2
    /\ last.op = "construct" =>
          (numGroups > 0 <=> (last.spGroups \in 1..4 /\ last.spDests \in 2..4))

(* ---------------- C13 ---------------- *)
\* floor(byte2 / 127 * 0.9999 * D), said without division
MidiFloorTimesD(byte2, D) ==
    CHOOSE k \in 0..D : /\ k * 127 * 10000 <= byte2 * 9999 * D
                        /\ byte2 * 9999 * D < (k + 1) * 127 * 10000

\* C13: a stored policy below 0 acts as Unipolar and one above 5 as
\* Gate-Reverse, in a decoded block and in a received Control Change alike;
\* and a block without a control bus takes the Active Dest parameter
\* clamped into 1..D, whatever integer is stored.
C13_StoredEnumsAreClamped ==
    /\ (Decoded(0) /\ Policy(0) < 0) =>
          groupState[0].targetDest = FloorTimesD(Clamp(ControlSample(0, bufIn), 0, 9999), numDests)
    /\ (Decoded(0) /\ Policy(0) > 5) =>
          groupState[0].targetDest = (IF ControlSample(0, bufIn) > 2500 THEN 0 ELSE 1)
    /\ (Received(0) /\ Policy(0) < 0) =>
          groupState[0].targetDest = MidiFloorTimesD(last.byte2, numDests)
    /\ (Received(0) /\ Policy(0) > 5) =>
          groupState[0].targetDest = (IF last.byte2 > 63 THEN 0 ELSE 1)
    /\ (last.op = "step" /\ v[PARAM_BYPASS] = 0 /\ ControlBus(0) = 0) =>
          LET ad == v[GroupParam(0, GP_ACTIVE_DEST)]
          IN  groupState[0].targetDest =
                 (IF ad < 1 THEN 1 ELSE IF ad > numDests THEN numDests ELSE ad) - 1

\* a block decoded with 100 stored as the policy: a low control sample
\* gives destination 1, as under Gate-Reverse
C13_Witness ==
    /\ Decoded(0) /\ Policy(0) = 100
    /\ ControlSample(0, bufIn) = 0
    /\ groupState[0].targetDest = 1

(* ---------------- C14 ---------------- *)
\* every current gain of group g is within 0.0001 of its target gain
Settled(g) ==
    \A d \in Dests :
        LET diff == groupState[g].destGains[d] - groupState[g].targetGains[d]
        IN  diff * 10000 <= One /\ (-diff) * 10000 <= One

\* C14 as stated: once the target has moved from destination 1 to
\* destination 2 and is held there, blocks that keep coming bring every
\* current gain within 0.0001 of its target, where it stays.
C14_GainsConverge == (groupState[0].targetDest = 1) ~> [](Settled(0))

(* ---------------- C15 ---------------- *)
\* C15 as stated: when a Control Change has moved a group's target, the
\* next processed block chases that target, under every policy and with
\* the control bus connected or not.
C15_MidiChangeIsChased ==
    [][(last.op = "midiMessage" /\ 0 \in last.retargeted
        /\ last'.op = "step" /\ v[PARAM_BYPASS] = 0) =>
            groupState'[0].targetDest = groupState[0].targetDest]_vars

(* ---------------- C16 ---------------- *)
\* what group g adds to sample n of bus B when its volume scalar is
\* hundredths / 100: as ContributionFrom, with the scalar given
RECURSIVE ShareFrom(_, _, _, _, _)
ShareFrom(d, g, B, n, hundredths) ==
    IF d >= numDests THEN 0
    ELSE
        LET inL == v[GroupParam(g, GP_INPUT_L)]
            inR == v[GroupParam(g, GP_INPUT_R)]
            rate == slewRate(Slew(g), GlobalSlew, getSampleRateFloat(sampleRate))
            gain == Slewed(n, groupState[g].destGains, groupState'[g].targetGains, rate)[d]
            sigL0 == IF inL # 0 THEN bufIn'[inL][n] ELSE 0
            sigR0 == IF inR # 0 THEN bufIn'[inR][n] ELSE sigL0
            addL == IF v[GroupParam(g, GP_DEST1_L + 2 * d)] = B
                    THEN RoundDiv(RoundDiv(sigL0 * hundredths, 100) * gain, One) ELSE 0
            addR == IF v[GroupParam(g, GP_DEST1_R + 2 * d)] = B
                    THEN RoundDiv(RoundDiv(sigR0 * hundredths, 100) * gain, One) ELSE 0
        IN  (IF gain * 10000 > One THEN addL + addR ELSE 0)
            + ShareFrom(d + 1, g, B, n, hundredths)

\* in the block just run, group 0 has added to every bus what a volume
\* scalar of hundredths / 100 makes of its signal
Group0Added(hundredths) ==
    \A B \in 1..NumBus : \A n \in 1..(last'.nBy4 * 4) :
        buf'[B][n] - bufIn'[B][n] - ContributionsFrom(1, B, n)
            = ShareFrom(0, 0, B, n, hundredths)

Volume(g) == v[GroupParam(g, GP_VOLUME)]

\* C16 as stated: at the minimum volume setting the scalar is exactly zero
\* and the group adds nothing to any bus; at 0 dB the scalar is unity.
C16_MinimumVolumeIsSilent ==
    [][(last'.op = "step" /\ v[PARAM_BYPASS] = 0) =>
        /\ Volume(0) = -400 => Group0Added(0)
        /\ Volume(0) = 0 => Group0Added(100)]_vars

\* C16, amended: at the minimum volume setting, -40 dB, the scalar is 0.01
\* and the group adds a hundredth of its signal times its gain; at 0 dB the
\* scalar is unity.
C16_MinimumVolumeIsOneHundredth ==
    [][(last'.op = "step" /\ v[PARAM_BYPASS] = 0) =>
        /\ Volume(0) = -400 => Group0Added(1)
        /\ Volume(0) = 0 => Group0Added(100)]_vars

\* a block at the minimum volume with destination 1 at full gain: bus 3
\* has changed
C16_Witness ==
    /\ last.op = "step" /\ numGroups = 1 /\ Volume(0) = -400
    /\ groupState[0].destGains[0] = One
    /\ buf[3][1] # bufIn[3][1]

(* ---------------- C17 ---------------- *)
\* the destination after n rising edges under one policy, from dest
RECURSIVE Edges(_, _, _, _)
Edges(n, type, dest, D) ==
    IF n = 0 THEN dest
    ELSE Edges(n - 1, type,
               IF type = CTRL_TRIGGER THEN triggerNext(dest, D) ELSE triggerPrev(dest, D), D)

\* one step up and one step down on the ring of D destinations
Up(dest) == IF dest = numDests - 1 THEN 0 ELSE dest + 1

Down(dest) == IF dest = 0 THEN numDests - 1 ELSE dest - 1

\* the block or the Control Change that has just happened is a rising edge
\* for group 0: a decoded control sample above 2.5 V after a low one, or an
\* addressed data byte above 63 after one that was not
CvEdge ==
    /\ last'.op = "step" /\ v[PARAM_BYPASS] = 0 /\ ControlBus(0) > 0
    /\ ControlSample(0, bufIn') > 2500 /\ ~groupState[0].lastTriggerHigh

MidiEdge ==
    /\ last'.op = "midiMessage" /\ Addressed(0, last'.byte0, last'.byte1)
    /\ last'.byte2 > 63 /\ groupState[0].lastMidiValue <= 63

\* C17: on a rising edge of the control bus or of the controller, Trigger
\* moves the target one up and Trigger-Reverse one down on the ring of D
\* destinations (D-1 wraps to 0, 0 wraps to D-1); D edges under one policy
\* lead back to the destination they started from, and a Trigger edge
\* followed by a Trigger-Reverse edge restores it.
C17_TriggerAdvancesModuloD ==
    [][(CvEdge \/ MidiEdge) =>
        /\ Policy(0) = CTRL_TRIGGER => groupState'[0].targetDest = Up(groupState[0].targetDest)
        /\ Policy(0) = CTRL_TRIG_REV => groupState'[0].targetDest = Down(groupState[0].targetDest)
        /\ \A t \in Dests :
              /\ Edges(numDests, CTRL_TRIGGER, t, numDests) = t
              /\ Edges(numDests, CTRL_TRIG_REV, t, numDests) = t
              /\ triggerPrev(triggerNext(t, numDests), numDests) = t]_vars

\* a Trigger edge of the control bus that has wrapped the last of three
\* destinations to the first
C17_Witness ==
    /\ Decoded(0) /\ Policy(0) = CTRL_TRIGGER /\ numDests = 3
    /\ ControlSample(0, bufIn) > 2500
    /\ groupState[0].lastTriggerHigh
    /\ groupState[0].targetDest = 0
    /\ groupState[0].lastMidiValue > 63

(* ---------------- C18 ---------------- *)
\* x lies between a and b, the ends included
Between(x, a, b) == (a <= x /\ x <= b) \/ (b <= x /\ x <= a)

\* the smoothing rate a block of group 0 runs with
StepRate == slewRate(Slew(0), GlobalSlew, getSampleRateFloat(sampleRate))

\* through n more samples of a slew toward target, every gain stays between
\* the value it had before the sample and its target
RECURSIVE NoOvershoot(_, _, _, _)
NoOvershoot(n, gains, target, rate) ==
    \/ n = 0
    \/ /\ \A d \in Dests :
             Between(SlewGains(gains, target, rate, numDests)[d], gains[d], target[d])
       /\ NoOvershoot(n - 1, SlewGains(gains, target, rate, numDests), target, rate)

\* C18: the smoothing rate of a block is above 0 and at most 1, and after
\* each of its samples every destination gain lies between the value it had
\* before that sample and its target, the ends included; over the block a
\* gain below its target has not fallen, a gain above its target has not
\* risen, and none has crossed its target.
C18_SlewNeverOvershoots ==
    [][(last'.op = "step" /\ v[PARAM_BYPASS] = 0) =>
        LET before == groupState[0].destGains
            after == groupState'[0].destGains
            target == groupState'[0].targetGains
            N == last'.nBy4 * 4
        IN  /\ StepRate \in 1..One
            /\ after = Slewed(N, before, target, StepRate)
            /\ NoOvershoot(N, before, target, StepRate)
            /\ \A d \in Dests :
                  /\ before[d] <= target[d] => (before[d] <= after[d] /\ after[d] <= target[d])
                  /\ before[d] >= target[d] => (before[d] >= after[d] /\ after[d] >= target[d])]_vars

\* a block on the long time constant has ended with one gain part-way up
\* and another part-way down
C18_Witness ==
    /\ last.op = "step" /\ Slew(0) = 5000
    /\ \E d \in Dests :
          /\ groupState[0].targetGains[d] = One
          /\ groupState[0].destGains[d] \in 1..(One - 1)
    /\ \E d \in Dests :
          /\ groupState[0].targetGains[d] = 0
          /\ groupState[0].destGains[d] \in 1..(One - 1)

(* ---------------- C19 ---------------- *)
\* the block b with the control bus of group g flattened to its last sample
Flattened(g, b) ==
    [b EXCEPT ![ControlBus(g)] = ConstBlock(ControlSample(g, b), Len(b[ControlBus(g)]))]

\* what step leaves of a block: the state of the groups and the busses
\* other than the control bus of group 0
StepOf(b) ==
    StepGroups(0, numGroups, Len(b[1]), numDests, v, getSampleRateFloat(sampleRate),
               groupState, b)

\* the audio inputs of group g
AudioInputs(g) == {v[GroupParam(g, GP_INPUT_L)], v[GroupParam(g, GP_INPUT_R)]} \ {0}

\* a processed block of group 0 decodes one control value, the last sample
\* of its control bus: the target and the edge history are those of one
\* processControl call on that sample, the state is that of the block whose
\* control bus holds that sample throughout, and under Trigger a block
\* whose last control sample is low does not move the target
DecodesLastSample ==
    LET once == processControl(ControlSample(0, bufIn'), clampCtrlType(Policy(0)),
                               numDests, groupState[0])
    IN  /\ groupState'[0].targetDest = once.dest
        /\ groupState'[0].lastTriggerHigh = once.lastTriggerHigh
        /\ groupState' = StepOf(Flattened(0, bufIn')).groupState
        /\ (Policy(0) = CTRL_TRIGGER /\ ControlSample(0, bufIn') <= 2500) =>
              groupState'[0].targetDest = groupState[0].targetDest

\* the busses other than the control bus of group 0 are left as the block
\* flattened to its last control sample leaves them
SameOutputs ==
    \A b \in (1..NumBus) \ {ControlBus(0)} : buf'[b] = StepOf(Flattened(0, bufIn')).buf[b]

\* C19 as stated: a processed block of a group with a control bus uses only
\* the last sample of that bus; target, edge history and outputs are those
\* of any block that differs from it at earlier control samples only.
C19_EarlierSamplesChangeNothing ==
    [][(last'.op = "step" /\ v[PARAM_BYPASS] = 0 /\ ControlBus(0) > 0) =>
        (DecodesLastSample /\ SameOutputs)]_vars

\* C19, amended: the decoder uses only the last sample of the control bus,
\* so target and edge history are those of any block that differs at
\* earlier control samples only; the outputs are too when the control bus
\* is not also an audio input of the group.
C19_OnlyLastControlSample ==
    [][(last'.op = "step" /\ v[PARAM_BYPASS] = 0 /\ ControlBus(0) > 0) =>
        /\ DecodesLastSample
        /\ ControlBus(0) \notin AudioInputs(0) => SameOutputs]_vars

\* after an earlier advance, a block under Trigger whose control bus was
\* high at its first sample and in the middle and low at its last: the
\* target has stayed
C19_Witness ==
    /\ Decoded(0) /\ Policy(0) = CTRL_TRIGGER
    /\ ControlBus(0) \notin AudioInputs(0)
    /\ bufIn[1][1] = 12000 /\ bufIn[1][2] = 12000
    /\ ControlSample(0, bufIn) = 0
    /\ ~groupState[0].lastTriggerHigh
    /\ groupState[0].targetDest = 1
    /\ buf[3][1] # bufIn[3][1]

(* ---------------- C20 ---------------- *)
\* C20: midiMessage leaves the state of a group as it was unless the message
\* is a Control Change, the group's MIDI Enable is on, its MIDI Channel is
\* the channel of the message and its MIDI CC the controller number; every
\* group for which all of these hold takes the data byte as the value
\* received and has its target gains set for its target; nothing else of
\* the instance changes.
C20_MidiChangesOnlyAddressedGroups ==
    [][last'.op = "midiMessage" =>
        /\ \A g \in Groups :
              IF Addressed(g, last'.byte0, last'.byte1)
              THEN /\ groupState'[g].lastMidiValue = last'.byte2
                   /\ groupState'[g].targetDest \in Dests
                   /\ \A d \in Dests :
                         groupState'[g].targetGains[d] =
                            IF d = groupState'[g].targetDest THEN One ELSE 0
                   /\ groupState'[g].destGains = groupState[g].destGains
                   /\ groupState'[g].lastTriggerHigh = groupState[g].lastTriggerHigh
              ELSE groupState'[g] = groupState[g]
        /\ UNCHANGED <<numGroups, numDests, sampleRate, v, bufIn, buf>>]_vars

\* one Control Change has reached both groups, after an earlier one that
\* reached group 0 alone
C20_Witness ==
    /\ numGroups = 2 /\ Received(0) /\ Received(1)
    /\ last.byte2 = 0
    /\ groupState[0].lastMidiValue = 0 /\ groupState[1].lastMidiValue = 0
    /\ groupState[0].targetDest = 1 /\ groupState[1].targetDest = 0

(* ---------------- C21 ---------------- *)
\* C21: the two edge histories are separate.  A Control Change leaves
\* lastTriggerHigh as it was and a block leaves lastMidiValue as it was;
\* under Trigger or Trigger-Reverse a block moves the target exactly when
\* its control sample is high after a low one, whatever the controller has
\* sent, and an addressed Control Change moves it exactly when its data
\* byte is above 63 after one that was not, whatever the control bus has
\* carried.
C21_EdgeHistoriesIndependent ==
    [][/\ last'.op = "midiMessage" =>
            /\ groupState'[0].lastTriggerHigh = groupState[0].lastTriggerHigh
            /\ (Addressed(0, last'.byte0, last'.byte1)
                  /\ Policy(0) \in {CTRL_TRIGGER, CTRL_TRIG_REV}) =>
                  (groupState'[0].targetDest # groupState[0].targetDest <=> MidiEdge)
       /\ last'.op = "step" =>
            /\ groupState'[0].lastMidiValue = groupState[0].lastMidiValue
            /\ (v[PARAM_BYPASS] = 0 /\ ControlBus(0) > 0
                  /\ Policy(0) \in {CTRL_TRIGGER, CTRL_TRIG_REV}) =>
                  (groupState'[0].targetDest # groupState[0].targetDest <=> CvEdge)]_vars

\* with the control bus held high since its edge, a Control Change has
\* advanced the target once more: both edges counted, of three destinations
C21_Witness ==
    /\ Received(0) /\ Policy(0) = CTRL_TRIGGER /\ numDests = 3
    /\ last.byte2 > 63
    /\ groupState[0].lastTriggerHigh
    /\ groupState[0].lastMidiValue > 63
    /\ groupState[0].targetDest = 2
    /\ 0 \in last.retargeted

(* ---------------- C22 ---------------- *)
\* C22 as stated: a block decoded under Gate or Gate-Reverse leaves
\* lastTriggerHigh saying whether its control sample was above 2.5 V.
C22_GateTracksEdgeHistory ==
    [][(last'.op = "step" /\ v[PARAM_BYPASS] = 0 /\ ControlBus(0) > 0
          /\ Policy(0) \in {CTRL_GATE, CTRL_GATE_REV}) =>
        groupState'[0].lastTriggerHigh = (ControlSample(0, bufIn') > 2500)]_vars

(* ---------------- C23 ---------------- *)
\* the target one edge on from dest under the stored policy of group 0
EdgeOn(dest) == IF Policy(0) = CTRL_TRIGGER THEN Up(dest) ELSE Down(dest)

\* C23: one target is shared by the two paths and the last callback wins.
\* Under Trigger and Trigger-Reverse every decoded block and every addressed
\* Control Change leaves the target one edge on from the target the
\* previous callback left, whichever path that was, if it is a rising edge
\* of its own path, and leaves that target if it is not; nothing else moves
\* the target.  (Each edge of either path thus counts once.)
C23_LastWriterWins ==
    [][IF CvEdge \/ MidiEdge
       THEN groupState'[0].targetDest = EdgeOn(groupState[0].targetDest)
       ELSE groupState'[0].targetDest = groupState[0].targetDest]_vars

\* a block has advanced the target of four destinations from where a
\* Control Change had advanced it to
C23_Witness ==
    /\ Decoded(0) /\ Policy(0) = CTRL_TRIGGER /\ numDests = 4
    /\ ControlSample(0, bufIn) > 2500
    /\ groupState[0].lastTriggerHigh
    /\ groupState[0].lastMidiValue > 63
    /\ groupState[0].targetDest = 2

(* ---------------- C24 ---------------- *)
\* C24 as stated: whenever no step call is under way, Control Changes
\* having run at any points inside the calls before, the target of the
\* group is in 0..D-1 and its target gains are 1.0 at the target and 0.0
\* at every other destination.
C24_TargetGainsOneHotAfterRace ==
    inStep.pc = "idle" =>
        /\ groupState[0].targetDest \in Dests
        /\ \A d \in Dests :
              groupState[0].targetGains[d] = IF d = groupState[0].targetDest THEN One ELSE 0

(* ---------------- C25 ---------------- *)
\* the gains of group g at sample n (from 1) of the block just processed
GainsAt(g, n) ==
    Slewed(n, groupState[g].destGains, groupState'[g].targetGains,
           slewRate(Slew(g), GlobalSlew, getSampleRateFloat(sampleRate)))

\* a gain above 0.0001
AboveEpsilon(gain) == gain * 10000 > One

Alone(g) ==
    [p \in DOMAIN v |->
        IF p < GLOBAL_PARAM_COUNT
              \/ (p - GLOBAL_PARAM_COUNT) \div paramsPerGroupOf(numDests) = g
        THEN v[p]
        ELSE DefaultParams(numGroups, numDests)[p]]

RECURSIVE Chase(_, _, _, _)
Chase(n, gain, target, rate) ==
    IF n = 0 THEN gain
    ELSE Chase(n - 1, gain + slewIncrement(target - gain, rate), target, rate)

\* C27: a Control Change and a parameter change leave the current gains
\* exactly as they were, whether or not they move the target; a processed
\* block, whether or not its decoder or Active Dest moved the target,
\* leaves every gain where N samples of the slew take it from the value it
\* had before the block toward the target of the block.
C27_RetargetKeepsGains ==
    [][/\ last'.op \in {"midiMessage", "parameterChanged"} =>
            groupState'[0].destGains = groupState[0].destGains
       /\ (last'.op = "step" /\ v[PARAM_BYPASS] = 0) =>
            \A d \in Dests :
                groupState'[0].destGains[d] =
                    Chase(last'.nBy4 * 4, groupState[0].destGains[d],
                          groupState'[0].targetGains[d], StepRate)]_vars

\* a block has ended with the target moved twice during the transition, by
\* the control bus and by a Control Change: the gain that was rising is
\* part-way down, the gain of the new target part-way up
C27_Witness ==
    /\ Decoded(0) /\ numDests = 3
    /\ groupState[0].lastTriggerHigh /\ groupState[0].lastMidiValue > 63
    /\ groupState[0].targetDest = 2
    /\ groupState[0].destGains[1] \in 1..(One - 1)
    /\ groupState[0].destGains[2] \in 1..(One - 1)

(* ---------------- C28 ---------------- *)
\* C28: a block handed to step while Bypass is on comes back as it was
\* handed over, every bus of it, and leaves every field of every group's
\* state as it was: target, target gains, current gains, and both edge
\* histories, so that a control edge inside it is not recorded.
C28_BypassedStepDoesNothing ==
    [][(last'.op = "step" /\ v[PARAM_BYPASS] # 0) =>
        /\ buf' = bufIn'
        /\ groupState' = groupState]_vars

\* a bypassed block with the control high and audio on the input, taken
\* after an advance and a low block and in the middle of the transition:
\* the edge history is still low and the gains are where they were
C28_Witness ==
    /\ last.op = "step" /\ v[PARAM_BYPASS] = 1
    /\ ControlSample(0, bufIn) > 2500 /\ bufIn[2][1] # 0
    /\ ~groupState[0].lastTriggerHigh
    /\ groupState[0].targetDest = 1
    /\ groupState[0].destGains[0] \in 1..(One - 1)
    /\ buf = bufIn

(* ---------------- C29 ---------------- *)
\* the sum of the current gains of group g over its destinations
RECURSIVE GainSum(_, _)
GainSum(g, d) ==
    IF d >= numDests THEN 0 ELSE groupState[g].destGains[d] + GainSum(g, d + 1)

\* C29 as stated: in every reachable state the current gains of a group add
\* up to 1.0 at most.
C29_GainSumAtMostOne ==
    \A g \in Groups : GainSum(g, 0) <= FloatOne

====
